---- MODULE Spec2Model ----
(***************************************************************************)
(* Atlas Civico: the map page (src/app/page.tsx), the issue service       *)
(* (src/services/issue-service.ts) and the auth context                    *)
(* (src/context/auth-context.tsx).                                         *)
(*                                                                         *)
(* The page is a React component: a handler sees the state of the render   *)
(* in which it was created.  A click handler therefore reads the state     *)
(* committed when the click happens, and the part of an async handler that *)
(* runs after its await still reads the values captured at the click.      *)
(* Each in-flight handleUpvote call carries those captured values.         *)
(***************************************************************************)
EXTENDS Naturals, Sequences, FiniteSets

VARIABLES
    route,              \* the current route: "/" is the mounted map page
    appUser,            \* useAuth().appUser: a uid or NoUser
    issues,             \* useState<Issue[]>: the list published by the feed
    upvotedIssues,      \* useState(new Set<string>())
    selectedCategories, \* useState<string[]>
    filteredIssues,     \* useMemo over issues and selectedCategories
    pending,            \* handleUpvote calls suspended at their await, oldest first
    ledger,             \* localStorage: upvotedIssues_<uid>
    docs,               \* the issues collection, ordered by reportedAt desc
    notifyDue,          \* the snapshot listener has a notification to deliver
    remote,             \* other clients running the same page
    ev,                 \* history: what the last step did
    run,                \* history: per issue, calls made while it stays in the set
    outcome,            \* history: per user and issue, how its upvote writes ended
    now,                \* the client clock, in milliseconds
    raw,                \* a raw record handed to fromFirestore
    normalized,         \* what fromFirestore made of raw: raised, or the issue
    users,              \* the users collection: one record per uid
    adds,               \* addIssueClient calls suspended at an await
    feed,               \* the snapshot listeners listenToIssues has set up
    calls,              \* comment calls of the service suspended at an await
    roleAt,             \* history: per comment id, the role its author's AppUser had
    idp,                \* Firebase Auth: the current identity and the accounts made
    session,            \* AuthProvider state: authUser, profile, isAdmin, isLoading
    procs,              \* auth-state handlers and register calls suspended at an await
    mapState            \* MapComponent state: popups, geocoding, viewport, lookups in flight

\* The variables of the map page and its store.
pageVars == <<route, appUser, issues, upvotedIssues, selectedCategories, filteredIssues,
              pending, ledger, docs, notifyDue, remote, run, outcome>>

\* The variables the map page's own steps leave alone.
extVars == <<now, raw, normalized, users, adds, feed, calls, roleAt, idp, session, procs, mapState>>

\* What an auth step leaves alone on the page, and in the service.
authPageVars == <<route, issues, selectedCategories, filteredIssues, pending, ledger, docs,
                  notifyDue, remote, outcome>>

authSvcVars == <<now, raw, normalized, adds, feed, calls, roleAt, mapState>>

\* The client side of the map page: everything but the store.
clientVars == <<route, appUser, issues, upvotedIssues, selectedCategories, filteredIssues,
                pending, ledger, notifyDue, remote, run, outcome>>

vars == <<pageVars, ev, extVars>>

(***************************************************************************)
(* Bounds and finite domains                                               *)
(***************************************************************************)
MaxPending == 2
MaxCount == 2
MaxDocs == 2
MaxComments == 2
MaxTick == 2
MaxAdds == 1
MaxInbox == 2
MaxSubs == 2
MaxReported == 2
MaxCalls == 2
MaxProcs == 3

IssueIds == {"i1", "i2", "i3"}
Categories == {"A", "B", "C"}
Users == {"u1"}
Remotes == {"r1", "r2"}
NoUser == "none"
NoIssue == "none"
NoCategory == "none"
CommentIds == {"c1", "c2", "c3"}
Roles == {"user", "admin"}
\* Clock readings, in milliseconds: one tick is half a second.
Times == {t * 500 : t \in 0..MaxTick}
\* The fields of a stored issue a record may lack.
OptionalFields == {"upvotes", "comments", "reportedAt", "location"}
\* Strings are sequences of characters.
Blank == <<" ">>
Texts == {<<>>, Blank, <<"a">>, <<" ", "a", " ">>}
\* The order in which uuidv4 hands out comment ids.
CommentOrder == <<"c1", "c2", "c3">>
\* The order in which addDoc hands out document ids.
IdOrder == <<"i1", "i2", "i3">>

Range(s) == {s[k] : k \in 1..Len(s)}

Min(a, b) == IF a < b THEN a ELSE b

DocIds(ds) == {ds[k].id : k \in 1..Len(ds)}

StoredUpvotes(id) ==
    IF id \in DocIds(docs)
    THEN (CHOOSE d \in Range(docs) : d.id = id).upvotes
    ELSE 0

(***************************************************************************)
(* issue-service.ts                                                        *)
(***************************************************************************)
\* Timestamp.now(): the SDK's timestamp for a clock reading in milliseconds.
Timestamp(ms) == [seconds |-> ms \div 1000, nanoseconds |-> (ms % 1000) * 1000000]

\* Timestamp.toDate(): a Date, as its milliseconds since the epoch.
ToDate(ts) == ts.seconds * 1000 + ts.nanoseconds \div 1000000

\* A raw record keeps one shape; d.has names the optional fields it really has,
\* and a field it lacks holds a placeholder nobody reads.
ReportedAtOfEpoch(d, clock) == IF "reportedAt" \in d.has THEN ToDate(d.reportedAt) ELSE 0

\* data.reportedAt ? data.reportedAt.toDate() : new Date()
ReportedAtOf(d, clock) == IF "reportedAt" \in d.has THEN ToDate(d.reportedAt) ELSE clock

\* data.upvotes || 0
UpvotesOf(d) == IF "upvotes" \in d.has THEN d.upvotes ELSE 0

\* data.comments || []
CommentsOf(d) == IF "comments" \in d.has THEN d.comments ELSE <<>>

\* Array.prototype.sort with (a, b) => b.createdAt.getTime() - a.createdAt.getTime():
\* a stable sort, newest first.
RECURSIVE InsertComment(_, _)
InsertComment(sorted, c) ==
    IF sorted = <<>> THEN <<c>>
    ELSE IF Head(sorted).createdAt >= c.createdAt
         THEN <<Head(sorted)>> \o InsertComment(Tail(sorted), c)
         ELSE <<c>> \o sorted

SortCommentsKeepsOrder(cs) == cs

RECURSIVE SortComments(_)
SortComments(cs) ==
    IF cs = <<>> THEN <<>>
    ELSE InsertComment(SortComments(SubSeq(cs, 1, Len(cs) - 1)), cs[Len(cs)])

\* (data.comments || []).map(c => ({...c, createdAt: c.createdAt.toDate()})).sort(...)
NormalizeComments(cs) ==
    SortComments([k \in 1..Len(cs) |-> [cs[k] EXCEPT !.createdAt = ToDate(@)]])

\* A stored comment keeps one shape too: a comment that has no createdAt holds
\* this placeholder, which no Timestamp equals (nanoseconds end at 999,999,999).
NoTimestamp == [seconds |-> 0, nanoseconds |-> 1000000000]

RaisesNever(d) == FALSE

\* fromFirestore reads data.location.latitude and, for every comment,
\* comment.createdAt.toDate(): a record without a location raises, and so does
\* a record with a comment that has no createdAt.
Raises(d) ==
    \/ "location" \notin d.has
    \/ \E k \in 1..Len(CommentsOf(d)) : CommentsOf(d)[k].createdAt = NoTimestamp

\* fromFirestore: the fields of the domain Issue this model reads.
FromFirestore(d) ==
    [id |-> d.id, title |-> d.title, category |-> d.category, status |-> d.status,
     upvotes |-> UpvotesOf(d), imageUrl |-> d.imageUrl,
     reportedAt |-> ReportedAtOf(d, now),
     location |-> [lat |-> d.location.latitude, lng |-> d.location.longitude],
     comments |-> NormalizeComments(CommentsOf(d))]

SnapshotIssuesFirstOnly(ds) == [k \in 1..Min(1, Len(ds)) |-> FromFirestore(ds[k])]

\* The list listenToIssues hands to its callback: every document, in query order.
SnapshotIssues(ds) == [k \in 1..Len(ds) |-> FromFirestore(ds[k])]

\* updateDoc(issueRef, { upvotes: newUpvotes })
WriteUpvotes(ds, id, n) ==
    [k \in 1..Len(ds) |-> IF ds[k].id = id THEN [ds[k] EXCEPT !.upvotes = n] ELSE ds[k]]

\* String.prototype.trim
RECURSIVE TrimStart(_)
TrimStart(t) == IF t # <<>> /\ Head(t) = " " THEN TrimStart(Tail(t)) ELSE t

RECURSIVE TrimEnd(_)
TrimEnd(t) ==
    IF t # <<>> /\ t[Len(t)] = " " THEN TrimEnd(SubSeq(t, 1, Len(t) - 1)) ELSE t

Trim(t) == TrimEnd(TrimStart(t))

\* encodeURIComponent
EncodeURIComponent(t) == [k \in 1..Len(t) |-> IF t[k] = " " THEN "%20" ELSE t[k]]

\* !issue.<field>?.trim()
NoText(i, field, text) == field \notin i.has \/ Trim(text) = <<>>

\* typeof c !== "number" || Number.isNaN(c)
BadCoordinate(c) == c.kind \notin {"number", "NaN"} \/ c.kind = "NaN"

ValidationErrorNone(i) == ""

\* addIssueClient, the validation: the message of the error it throws, "" if none.
ValidationError(i) ==
    IF NoText(i, "title", i.title) THEN "Título obrigatório"
    ELSE IF NoText(i, "description", i.description) THEN "Descrição obrigatória"
    ELSE IF NoText(i, "address", i.address) THEN "Endereço obrigatório"
    ELSE IF i.reporterId = "" THEN "ID do relator é obrigatório"
    ELSE IF BadCoordinate(i.lat) \/ BadCoordinate(i.lng) THEN "Localização inválida"
    ELSE ""

PayloadTakenAsIs(i, id, clock) ==
    [id |-> id, title |-> i.title, category |-> i.category, status |-> "Em análise",
     upvotes |-> 0, imageUrl |-> <<>>, reportedAt |-> Timestamp(clock),
     location |-> [latitude |-> i.lat.val, longitude |-> i.lng.val],
     comments |-> <<>>, has |-> OptionalFields]

\* addIssueClient, the payload, as the document addDoc stores under a new id.
Payload(i, id, clock) ==
    [id |-> id, title |-> Trim(i.title),
     category |-> IF i.category # "" THEN i.category ELSE "Outros",
     status |-> "Recebido", upvotes |-> 0,
     imageUrl |-> <<"https://placehold.co/600x400.png?text=">> \o EncodeURIComponent(i.title),
     reportedAt |-> Timestamp(clock),
     location |-> [latitude |-> i.lat.val, longitude |-> i.lng.val],
     comments |-> <<>>, has |-> OptionalFields]

\* The id addDoc gives the next document.
FreshId(ds) == IdOrder[CHOOSE k \in 1..Len(IdOrder) :
                    /\ IdOrder[k] \notin DocIds(ds)
                    /\ \A j \in 1..(k - 1) : IdOrder[j] \in DocIds(ds)]

\* A listener that is still set up is sent the query result after a write;
\* created is the id the write created, NoIssue if none.  Nothing follows an error.
Emit(f, ds, created) ==
    IF f.active /\ (f.inbox = <<>> \/ f.inbox[Len(f.inbox)].kind # "error")
    THEN [f EXCEPT !.inbox = Append(@, [kind |-> "snapshot", docs |-> ds, created |-> created])]
    ELSE f

\* listenToIssues(callback): onSnapshot sets up a listener, which is first sent
\* the current query result.
Listen(f, ds) ==
    [f EXCEPT !.gen = @ + 1, !.active = TRUE, !.last = <<>>,
              !.inbox = <<[kind |-> "snapshot", docs |-> ds, created |-> NoIssue]>>]

UnsubscribeKeepsListening(f, g) == f

\* The handle listenToIssues returned for listener g: the SDK's unsubscribe.
Unsubscribe(f, g) ==
    IF g = f.gen THEN [f EXCEPT !.active = FALSE, !.inbox = <<>>] ELSE f

OnListenErrorClears(list) == <<>>

\* The error callback of listenToIssues, as it leaves the list the success
\* callback published: it only logs.
OnListenError(list) == list

NewCommentAsUser(cid, content, user, clock) ==
    [id |-> cid, content |-> Trim(content), authorId |-> user.uid, authorRole |-> "user",
     createdAt |-> Timestamp(clock)]

\* addCommentToIssue, the comment it builds: user is the AppUser it was given.
NewComment(cid, content, user, clock) ==
    [id |-> cid, content |-> Trim(content), authorId |-> user.uid, authorRole |-> user.role,
     createdAt |-> Timestamp(clock)]

\* arrayUnion(c): c is added unless an equal element is stored.
ArrayUnion(cs, c) == IF c \in Range(cs) THEN cs ELSE Append(cs, c)

ArrayRemoveOldest(cs, c) == IF cs = <<>> THEN cs ELSE Tail(cs)

\* arrayRemove(c): every stored element equal to c is removed.
ArrayRemove(cs, c) == SelectSeq(cs, LAMBDA x : x # c)

\* issueData.comments.find(c => c.id === commentId): <<>> for undefined.
FindComment(cs, cid) ==
    IF \E k \in 1..Len(cs) : cs[k].id = cid
    THEN <<cs[CHOOSE k \in 1..Len(cs) :
                 cs[k].id = cid /\ \A j \in 1..(k - 1) : cs[j].id # cid]>>
    ELSE <<>>

\* The stored document with this id.
DocOf(ds, id) == CHOOSE d \in Range(ds) : d.id = id

\* updateDoc(issueRef, { comments: ... })
WriteComments(ds, id, cs) ==
    [k \in 1..Len(ds) |-> IF ds[k].id = id THEN [ds[k] EXCEPT !.comments = cs] ELSE ds[k]]

\* The id uuidv4 gives the next comment.
FreshComment ==
    CommentOrder[CHOOSE k \in 1..Len(CommentOrder) :
                    /\ roleAt[CommentOrder[k]] = "none"
                    /\ \A j \in 1..(k - 1) : roleAt[CommentOrder[j]] # "none"]

\* s without its k-th element.
Without(q, k) == SubSeq(q, 1, k - 1) \o SubSeq(q, k + 1, Len(q))

(***************************************************************************)
(* page.tsx: memos                                                         *)
(***************************************************************************)
RECURSIVE Distinct(_, _)
Distinct(s, acc) ==
    IF s = <<>> THEN acc
    ELSE Distinct(Tail(s), IF Head(s) \in Range(acc) THEN acc ELSE Append(acc, Head(s)))

\* [...new Set(issues.map(issue => issue.category))]
AllCategoriesFirstOnly(iss) == IF iss = <<>> THEN <<>> ELSE <<iss[1].category>>

AllCategories(iss) == Distinct([k \in 1..Len(iss) |-> iss[k].category], <<>>)

\* selectedCategories.length === 0 || selectedCategories.includes(issue.category)
CategoryMatchNoEmptyCase(issue, sel) == issue.category \in Range(sel)

CategoryMatch(issue, sel) == sel = <<>> \/ issue.category \in Range(sel)

RECURSIVE Filter(_, _)
Filter(iss, sel) ==
    IF iss = <<>> THEN <<>>
    ELSE IF CategoryMatch(Head(iss), sel)
         THEN <<Head(iss)>> \o Filter(Tail(iss), sel)
         ELSE Filter(Tail(iss), sel)

\* The selection effect: runs whenever allCategories is recomputed.
SelectionAfter(iss, sel) ==
    IF Len(AllCategories(iss)) > 0 THEN AllCategories(iss) ELSE sel

\* prev.includes(category) ? prev.filter(c => c !== category) : [...prev, category]
ToggleCategoryAppendOnly(prev, category) ==
    IF category \in Range(prev) THEN prev ELSE Append(prev, category)

ToggleCategory(prev, category) ==
    IF category \in Range(prev)
    THEN SelectSeq(prev, LAMBDA c : c # category)
    ELSE Append(prev, category)

(***************************************************************************)
(* page.tsx: handleUpvote                                                  *)
(***************************************************************************)
\* if (!appUser)
UpvoteRejectedNever == FALSE

UpvoteRejected == appUser = NoUser

\* if (upvotedIssues.has(issueId)) return;
AlreadyUpvotedNever(id) == FALSE

AlreadyUpvoted(id) == id \in upvotedIssues

\* new Set(upvotedIssues).add(issueId)
NewUpvotedSet(id) == upvotedIssues \cup {id}

\* catch: new Set(upvotedIssues) minus issueId, upvotedIssues being the captured one
RevertedUpvotedSetKeepsIssue(call) == call.captured \cup {call.issue}

RevertedUpvotedSet(call) == call.captured \ {call.issue}

\* The ledger load effect: getItem, and setUpvotedIssues only if something is stored.
LedgerLoad(u, current) ==
    IF u # NoUser /\ ledger[u].present THEN ledger[u].ids ELSE current

Detached(q) == [k \in 1..Len(q) |-> [q[k] EXCEPT !.live = FALSE]]

(***************************************************************************)
(* map.tsx: MapComponent                                                   *)
(***************************************************************************)
Max(a, b) == IF a > b THEN a ELSE b

\* initialViewState.zoom; the zoom floors of the two flyTo calls.
InitialZoom == 13
MapClickZoom == 16
MarkerZoom == 15

\* A coordinate in degrees is a sign and a magnitude in millionths of a degree.
LngLat(neg, micro) == [neg |-> neg, micro |-> micro]

\* The coordinate of an issue, whose location this model keeps in whole degrees.
Degrees(n) == LngLat(FALSE, n * 1000000)

Digit(k) == <<"0", "1", "2", "3", "4", "5", "6", "7", "8", "9">>[k + 1]

\* The decimal digits of a natural number.
RECURSIVE Decimal(_)
Decimal(n) == IF n < 10 THEN <<Digit(n)>> ELSE Decimal(n \div 10) \o <<Digit(n % 10)>>

\* The last w decimal digits of n, with leading zeros.
RECURSIVE Padded(_, _)
Padded(n, w) == IF w = 0 THEN <<>> ELSE Padded(n \div 10, w - 1) \o <<Digit(n % 10)>>

\* Number.prototype.toFixed(5): rounded to five decimals, the sign of a
\* negative number kept.
ToFixed5(c) ==
    LET r == (c.micro + 5) \div 10
    IN  (IF c.neg /\ c.micro > 0 THEN <<"-">> ELSE <<>>)
            \o Decimal(r \div 100000) \o <<".">> \o Padded(r % 100000, 5)

\* `${lat.toFixed(5)}, ${lng.toFixed(5)}`
CoordinateLiteral(lat, lng) == ToFixed5(lat) \o <<",", " ">> \o ToFixed5(lng)

NotFound == <<"Endereço não encontrado">>
PlaceName == <<"R", "u", "a", " ", "1">>

\* What the reverse-geocode request can come back with: a feature with a place
\* name, a feature with an empty one, an empty feature list, a body without
\* features (an error body), a body that is not JSON, or no response at all.
Replies == {"place", "emptyName", "noFeature", "noFeatures", "notJson", "network"}

\* fetch, response.json() or data.features[0] throws.
Throws(reply) == reply \in {"network", "notJson", "noFeatures"}

\* handleMapClick, the address it stores: try { place_name || literal } catch { fixed text }
AddressOf(reply, lat, lng) ==
    IF Throws(reply) THEN NotFound
    ELSE IF reply = "place" THEN PlaceName
    ELSE CoordinateLiteral(lat, lng)

NoLocation ==
    [set |-> FALSE, lat |-> LngLat(FALSE, 0), lng |-> LngLat(FALSE, 0), address |-> <<>>]

\* useState(null), useState(null), useState(false); initialViewState.
InitialMap ==
    [popupInfo |-> NoIssue, newIssueLocation |-> NoLocation, geocoding |-> FALSE,
     view |-> [lat |-> LngLat(FALSE, 0), lng |-> LngLat(FALSE, 0), zoom |-> InitialZoom],
     lookups |-> <<>>]

MarkerTargetZoomFixed(z) == MarkerZoom

\* Math.max(map.getZoom(), 15)
MarkerTargetZoom(z) == Max(z, MarkerZoom)

(***************************************************************************)
(* History                                                                 *)
(***************************************************************************)
\* An addIssueClient argument keeps one shape; i.has names the text fields it
\* really has, and a coordinate says what kind of value it is.
NoInput ==
    [title |-> <<>>, description |-> <<>>, address |-> <<>>, category |-> "",
     reporterId |-> "", lat |-> [kind |-> "missing", val |-> 0],
     lng |-> [kind |-> "missing", val |-> 0], has |-> {}]

NoEv ==
    [op |-> "init", issue |-> NoIssue, user |-> NoUser, persist |-> 0,
     toasts |-> <<>>, redirect |-> "", live |-> FALSE, fromEmpty |-> FALSE,
     category |-> NoCategory, wasSelected |-> FALSE, input |-> NoInput, error |-> "",
     writes |-> 0, handle |-> 0, comment |-> "none", warned |-> FALSE,
     proc |-> "none", done |-> FALSE, hadLocation |-> FALSE]

Ev(op) == [NoEv EXCEPT !.op = op]

ZeroRun == [inv |-> 0, calls |-> 0]

\* run after a step that leaves the set as newSet; invoked is the issue handleUpvote
\* was called on by a signed-in user (NoIssue if none), persisted whether it wrote.
RunAfter(newSet, invoked, persisted) ==
    [i \in IssueIds |->
        IF i \notin newSet THEN ZeroRun
        ELSE LET base == IF i \in upvotedIssues THEN run[i] ELSE ZeroRun IN
             IF i # invoked THEN base
             ELSE IF persisted
                  THEN [inv |-> Min(base.inv + 1, 2), calls |-> Min(base.calls + 1, 2)]
                  ELSE IF base.inv >= 1
                       THEN [base EXCEPT !.inv = Min(base.inv + 1, 2)]
                       ELSE base]

(***************************************************************************)
(* Initial states                                                          *)
(***************************************************************************)
InitPage ==
    /\ route = "/"
    /\ appUser = NoUser
    /\ issues = <<>>
    /\ upvotedIssues = {}
    /\ selectedCategories = <<>>
    /\ filteredIssues = <<>>
    /\ pending = <<>>
    /\ ledger = [u \in Users |-> [present |-> FALSE, ids |-> {}]]
    /\ notifyDue = TRUE
    /\ remote = [r \in Remotes |-> [seen |-> [i \in IssueIds |-> 0], upvoted |-> {}]]
    /\ ev = NoEv
    /\ run = [i \in IssueIds |-> ZeroRun]
    /\ outcome = [u \in Users |-> [i \in IssueIds |-> "none"]]
    /\ mapState = InitialMap

\* No fromFirestore call under observation.
NotNormalized == [done |-> FALSE, raised |-> FALSE, out |-> <<>>]

\* A user record as handleNewUser stores it.
UserDoc(role) == [present |-> TRUE, name |-> "ana", role |-> role, issuesReported |-> 0]

NoUserDoc == [present |-> FALSE, name |-> "", role |-> "user", issuesReported |-> 0]

\* AuthProvider before the first auth-state notification.
NoSession ==
    [authUser |-> NoUser, name |-> "", role |-> "user", isAdmin |-> FALSE, isLoading |-> TRUE]

InitAuthIdle ==
    /\ idp = [current |-> NoUser, accounts |-> {}]
    /\ session = NoSession
    /\ procs = <<>>

\* No listener set up.
NoFeed == [gen |-> 0, active |-> FALSE, inbox |-> <<>>, last |-> <<>>, cancelled |-> {}]

InitNorm ==
    /\ raw = <<>>
    /\ normalized = NotNormalized

InitService ==
    /\ users = [u \in Users |-> UserDoc("user")]
    /\ adds = <<>>
    /\ calls = <<>>
    /\ roleAt = [c \in CommentIds |-> "none"]

InitExt ==
    /\ now = 0
    /\ InitNorm
    /\ InitService
    /\ feed = NoFeed
    /\ InitAuthIdle

\* A document as addIssueClient stores it, before anybody upvoted or commented.
Doc(id, cat) ==
    [id |-> id, title |-> <<"a">>, category |-> cat, status |-> "Recebido", upvotes |-> 0,
     imageUrl |-> <<"https://placehold.co/600x400.png?text=", "a">>,
     reportedAt |-> Timestamp(0), location |-> [latitude |-> 0, longitude |-> 0],
     comments |-> <<>>, has |-> OptionalFields]

InitUpvote == InitPage /\ InitExt /\ docs = <<Doc("i2", "B"), Doc("i1", "A")>>

InitCount == InitPage /\ InitExt /\ docs = <<Doc("i1", "A")>>

InitFilter == InitPage /\ InitExt /\ docs \in {<<>>, <<Doc("i1", "A")>>}

(***************************************************************************)
(* Actions                                                                 *)
(***************************************************************************)
\* onSnapshot's callback: setIssues(all documents), then the memos and the
\* selection effect of the render that follows.
Notify ==
    /\ route = "/"
    /\ notifyDue
    /\ notifyDue' = FALSE
    /\ issues' = SnapshotIssues(docs)
    /\ selectedCategories' = SelectionAfter(issues', selectedCategories)
    /\ filteredIssues' = Filter(issues', selectedCategories')
    /\ ev' = [Ev("notify") EXCEPT !.fromEmpty = (issues = <<>> /\ issues' # <<>>)]
    /\ UNCHANGED <<route, appUser, upvotedIssues, pending, ledger, docs, remote,
                   run, outcome>>
    /\ UNCHANGED extVars

\* handleUpvote(issue.id, issue.upvotes), from the card of a listed issue, up to
\* its await.
HandleUpvote(k) ==
    /\ route = "/"
    /\ k \in 1..Len(filteredIssues)
    /\ LET issue == filteredIssues[k] IN
       IF UpvoteRejected
       THEN /\ route' = "/login"
            /\ pending' = Detached(pending)
            /\ ev' = [Ev("upvote") EXCEPT !.issue = issue.id, !.user = appUser,
                                          !.toasts = <<"denied">>, !.redirect = "/login"]
            /\ UNCHANGED <<upvotedIssues, run>>
       ELSE IF AlreadyUpvoted(issue.id)
       THEN /\ ev' = [Ev("upvote") EXCEPT !.issue = issue.id, !.user = appUser]
            /\ run' = RunAfter(upvotedIssues, issue.id, FALSE)
            /\ UNCHANGED <<route, pending, upvotedIssues>>
       ELSE /\ Len(pending) < MaxPending
            /\ issue.upvotes < MaxCount
            /\ upvotedIssues' = NewUpvotedSet(issue.id)
            /\ pending' = Append(pending,
                   [issue |-> issue.id, newUpvotes |-> issue.upvotes + 1,
                    captured |-> upvotedIssues, newSet |-> NewUpvotedSet(issue.id),
                    user |-> appUser, live |-> TRUE])
            /\ ev' = [Ev("upvote") EXCEPT !.issue = issue.id, !.user = appUser,
                                          !.persist = 1]
            /\ run' = RunAfter(upvotedIssues', issue.id, TRUE)
            /\ UNCHANGED route
    /\ UNCHANGED <<appUser, issues, selectedCategories, filteredIssues, ledger, docs,
                   notifyDue, remote, outcome>>
    /\ UNCHANGED extVars

\* updateIssueUpvotes resolved: the rest of the try block.
ResolveOk ==
    /\ pending # <<>>
    /\ LET call == Head(pending) IN
       /\ call.issue \in DocIds(docs)
       /\ docs' = WriteUpvotes(docs, call.issue, call.newUpvotes)
       /\ ledger' = [ledger EXCEPT ![call.user] = [present |-> TRUE, ids |-> call.newSet]]
       /\ outcome' = [outcome EXCEPT ![call.user][call.issue] = "succeeded"]
       /\ ev' = [Ev("resolveOk") EXCEPT !.issue = call.issue, !.user = call.user,
                                         !.live = call.live]
    /\ pending' = Tail(pending)
    /\ notifyDue' = TRUE
    /\ UNCHANGED <<route, appUser, issues, upvotedIssues, selectedCategories,
                   filteredIssues, remote, run>>
    /\ UNCHANGED extVars

\* updateIssueUpvotes rejected: the catch block.
ResolveFail ==
    /\ pending # <<>>
    /\ LET call == Head(pending) IN
       /\ upvotedIssues' = IF call.live THEN RevertedUpvotedSet(call) ELSE upvotedIssues
       /\ run' = RunAfter(upvotedIssues', NoIssue, FALSE)
       /\ outcome' = [outcome EXCEPT ![call.user][call.issue] =
                         IF @ = "succeeded" THEN @ ELSE "failed"]
       /\ ev' = [Ev("resolveFail") EXCEPT !.issue = call.issue, !.user = call.user,
                                           !.live = call.live, !.toasts = <<"error">>]
    /\ pending' = Tail(pending)
    /\ UNCHANGED <<route, appUser, issues, selectedCategories, filteredIssues, ledger,
                   docs, notifyDue, remote>>
    /\ UNCHANGED extVars

\* The auth context publishes another appUser; on the mounted page the ledger
\* load effect runs.
AuthStateChanged(u) ==
    /\ u # appUser
    /\ appUser' = u
    /\ upvotedIssues' = IF route = "/" THEN LedgerLoad(u, upvotedIssues) ELSE upvotedIssues
    /\ run' = RunAfter(upvotedIssues', NoIssue, FALSE)
    /\ ev' = [Ev("auth") EXCEPT !.user = u]
    /\ UNCHANGED <<route, issues, selectedCategories, filteredIssues, pending, ledger,
                   docs, notifyDue, remote, outcome>>
    /\ UNCHANGED extVars

\* Navigation away from the map page unmounts it: its state is gone and its
\* subscription cancelled.
LeavePage ==
    /\ route = "/"
    /\ route' = "/other"
    /\ pending' = Detached(pending)
    /\ issues' = <<>>
    /\ selectedCategories' = <<>>
    /\ filteredIssues' = <<>>
    /\ upvotedIssues' = {}
    /\ run' = [i \in IssueIds |-> ZeroRun]
    /\ notifyDue' = FALSE
    /\ ev' = Ev("leave")
    /\ UNCHANGED <<appUser, ledger, docs, remote, outcome>>
    /\ UNCHANGED extVars

\* Navigation to the map page mounts a fresh MapPage: initial state, then the
\* mount effects (subscription, ledger load).
OpenMapPage ==
    /\ route # "/"
    /\ route' = "/"
    /\ issues' = <<>>
    /\ selectedCategories' = <<>>
    /\ filteredIssues' = <<>>
    /\ upvotedIssues' = LedgerLoad(appUser, {})
    /\ run' = [i \in IssueIds |-> ZeroRun]
    /\ notifyDue' = TRUE
    /\ ev' = Ev("open")
    /\ UNCHANGED <<appUser, pending, ledger, docs, remote, outcome>>
    /\ UNCHANGED extVars

\* handleCategoryChange(category), from the checkbox of a listed category.
HandleCategoryChange(category) ==
    /\ route = "/"
    /\ category \in Range(AllCategories(issues))
    /\ selectedCategories' = ToggleCategory(selectedCategories, category)
    /\ filteredIssues' = Filter(issues, selectedCategories')
    /\ ev' = [Ev("toggle") EXCEPT !.category = category,
                                   !.wasSelected = (category \in Range(selectedCategories))]
    /\ UNCHANGED <<route, appUser, issues, upvotedIssues, pending, ledger, docs,
                   notifyDue, remote, run, outcome>>
    /\ UNCHANGED extVars

\* Another client's listener delivers the current count of an issue.
RemoteObserve(r, id) ==
    /\ id \in DocIds(docs)
    /\ remote[r].seen[id] # StoredUpvotes(id)
    /\ remote' = [remote EXCEPT ![r].seen[id] = StoredUpvotes(id)]
    /\ ev' = [Ev("remoteObserve") EXCEPT !.issue = id]
    /\ UNCHANGED <<route, appUser, issues, upvotedIssues, selectedCategories,
                   filteredIssues, pending, ledger, docs, notifyDue, run, outcome>>
    /\ UNCHANGED extVars

\* Another client's handleUpvote and its write, which succeeds.
RemoteUpvote(r, id) ==
    /\ id \in DocIds(docs)
    /\ id \notin remote[r].upvoted
    /\ remote[r].seen[id] < MaxCount
    /\ docs' = WriteUpvotes(docs, id, remote[r].seen[id] + 1)
    /\ remote' = [remote EXCEPT ![r].upvoted = @ \cup {id}]
    /\ notifyDue' = TRUE
    /\ ev' = [Ev("remoteUpvote") EXCEPT !.issue = id]
    /\ UNCHANGED <<route, appUser, issues, upvotedIssues, selectedCategories,
                   filteredIssues, pending, ledger, run, outcome>>
    /\ UNCHANGED extVars

\* A report adds a document (addIssueClient: newest first, upvotes 0).
AddIssue(id, cat) ==
    /\ Len(docs) < MaxDocs
    /\ id \notin DocIds(docs)
    /\ docs' = <<Doc(id, cat)>> \o docs
    /\ notifyDue' = TRUE
    /\ ev' = [Ev("addIssue") EXCEPT !.issue = id, !.category = cat]
    /\ Len(feed.inbox) < MaxInbox
    /\ feed' = Emit(feed, docs', id)
    /\ UNCHANGED <<route, appUser, issues, upvotedIssues, selectedCategories,
                   filteredIssues, pending, ledger, remote, run, outcome>>
    /\ UNCHANGED <<now, raw, normalized, users, adds, calls, roleAt, idp, session, procs, mapState>>

\* deleteIssue(issueId)
DeleteIssue(id) ==
    /\ id \in DocIds(docs)
    /\ docs' = SelectSeq(docs, LAMBDA d : d.id # id)
    /\ notifyDue' = TRUE
    /\ ev' = [Ev("deleteIssue") EXCEPT !.issue = id]
    /\ Len(feed.inbox) < MaxInbox
    /\ feed' = Emit(feed, docs', NoIssue)
    /\ UNCHANGED <<route, appUser, issues, upvotedIssues, selectedCategories,
                   filteredIssues, pending, ledger, remote, run, outcome>>
    /\ UNCHANGED <<now, raw, normalized, users, adds, calls, roleAt, idp, session, procs, mapState>>

(***************************************************************************)
(* issue-service.ts: addIssueClient                                        *)
(***************************************************************************)
\* addIssueClient(i) up to its first await: the validation throws, or the call
\* suspends at addDoc.
AddIssueClient(i) ==
    /\ Len(adds) < MaxAdds
    /\ \A u \in Users : users[u].issuesReported + Len(adds) < MaxReported
    /\ IF ValidationError(i) # ""
       THEN /\ ev' = [Ev("addIssueClient") EXCEPT !.input = i, !.error = ValidationError(i)]
            /\ UNCHANGED adds
       ELSE /\ adds' = Append(adds, [input |-> i, pc |-> "addDoc"])
            /\ ev' = [Ev("addIssueClient") EXCEPT !.input = i, !.writes = 1]
    /\ UNCHANGED <<clientVars, docs, now, raw, normalized, users, feed, calls, roleAt, idp, session, procs, mapState>>

\* addDoc(ref, payload) succeeds: the document is stored, the call goes on to
\* the updateDoc of the reporter's record.
AddDocDone(k) ==
    /\ k \in 1..Len(adds)
    /\ adds[k].pc = "addDoc"
    /\ Len(docs) < MaxDocs
    /\ Len(feed.inbox) < MaxInbox
    /\ docs' = <<Payload(adds[k].input, FreshId(docs), now)>> \o docs
    /\ feed' = Emit(feed, docs', FreshId(docs))
    /\ adds' = [adds EXCEPT ![k].pc = "updateDoc"]
    /\ ev' = [Ev("addDoc") EXCEPT !.issue = FreshId(docs), !.input = adds[k].input]
    /\ UNCHANGED <<clientVars, now, raw, normalized, users, calls, roleAt, idp, session, procs, mapState>>

\* addDoc rejects: addIssueClient rejects with its error.
AddDocFail(k) ==
    /\ k \in 1..Len(adds)
    /\ adds[k].pc = "addDoc"
    /\ adds' = Without(adds, k)
    /\ ev' = [Ev("addDocFail") EXCEPT !.input = adds[k].input, !.error = "addDoc"]
    /\ UNCHANGED <<clientVars, docs, now, raw, normalized, users, feed, calls, roleAt, idp, session, procs, mapState>>

\* updateDoc(userRef, { issuesReported: increment(1) }) succeeds: the call returns.
UpdateUserDone(k) ==
    /\ k \in 1..Len(adds)
    /\ adds[k].pc = "updateDoc"
    /\ users[adds[k].input.reporterId].present
    /\ users' = [users EXCEPT ![adds[k].input.reporterId].issuesReported = @ + 1]
    /\ adds' = Without(adds, k)
    /\ ev' = [Ev("updateUser") EXCEPT !.input = adds[k].input]
    /\ UNCHANGED <<clientVars, docs, now, raw, normalized, feed, calls, roleAt, idp, session, procs, mapState>>

\* updateDoc rejects (no such user record, or the transport): addIssueClient
\* rejects with its error.
UpdateUserFail(k) ==
    /\ k \in 1..Len(adds)
    /\ adds[k].pc = "updateDoc"
    /\ adds' = Without(adds, k)
    /\ ev' = [Ev("updateUserFail") EXCEPT !.input = adds[k].input, !.error = "updateDoc"]
    /\ UNCHANGED <<clientVars, docs, now, raw, normalized, users, feed, calls, roleAt, idp, session, procs, mapState>>

(***************************************************************************)
(* issue-service.ts: listenToIssues, as page.tsx uses it                   *)
(***************************************************************************)
\* A fresh MapPage mounts: initial state, then the mount effects; the
\* subscription effect calls listenToIssues(setIssues) and keeps the handle.
MountPage ==
    /\ route # "/"
    /\ feed.gen < MaxSubs
    /\ route' = "/"
    /\ issues' = <<>>
    /\ selectedCategories' = <<>>
    /\ filteredIssues' = <<>>
    /\ upvotedIssues' = LedgerLoad(appUser, {})
    /\ run' = [i \in IssueIds |-> ZeroRun]
    /\ feed' = Listen(feed, docs)
    /\ ev' = [Ev("listen") EXCEPT !.handle = feed'.gen]
    /\ UNCHANGED <<appUser, pending, ledger, docs, notifyDue, remote, outcome>>
    /\ UNCHANGED <<now, raw, normalized, users, adds, calls, roleAt, idp, session, procs, mapState>>

\* The MapPage unmounts: the cleanup of the subscription effect invokes the handle.
UnmountPage ==
    /\ route = "/"
    /\ route' = "/other"
    /\ pending' = Detached(pending)
    /\ issues' = <<>>
    /\ selectedCategories' = <<>>
    /\ filteredIssues' = <<>>
    /\ upvotedIssues' = {}
    /\ run' = [i \in IssueIds |-> ZeroRun]
    /\ feed' = [Unsubscribe(feed, feed.gen) EXCEPT !.cancelled = @ \cup {feed.gen},
                                                  !.last = <<>>]
    /\ ev' = [Ev("unsubscribe") EXCEPT !.handle = feed.gen]
    /\ UNCHANGED <<appUser, ledger, docs, notifyDue, remote, outcome>>
    /\ UNCHANGED <<now, raw, normalized, users, adds, calls, roleAt, idp, session, procs, mapState>>

\* A handle that was invoked before is invoked again.
UnsubscribeAgain(g) ==
    /\ g \in feed.cancelled
    /\ feed' = Unsubscribe(feed, g)
    /\ ev' = [Ev("unsubscribeAgain") EXCEPT !.handle = g]
    /\ UNCHANGED <<pageVars, now, raw, normalized, users, adds, calls, roleAt, idp, session, procs, mapState>>

\* The listener's success callback runs on the oldest undelivered snapshot:
\* every document through fromFirestore, then callback(issues), here setIssues,
\* and the render that follows. When fromFirestore raises on a document, the
\* exception leaves the handler before callback is reached.
DeliverSnapshot ==
    /\ feed.active
    /\ feed.inbox # <<>>
    /\ Head(feed.inbox).kind = "snapshot"
    /\ IF \E k \in 1..Len(Head(feed.inbox).docs) : Raises(Head(feed.inbox).docs[k])
       THEN /\ feed' = [feed EXCEPT !.inbox = Tail(@)]
            /\ ev' = [Ev("callbackRaised") EXCEPT !.handle = feed.gen, !.error = "fromFirestore"]
            /\ UNCHANGED <<issues, selectedCategories, filteredIssues>>
       ELSE /\ issues' = SnapshotIssues(Head(feed.inbox).docs)
            /\ selectedCategories' = SelectionAfter(issues', selectedCategories)
            /\ filteredIssues' = Filter(issues', selectedCategories')
            /\ feed' = [feed EXCEPT !.inbox = Tail(@), !.last = <<Head(feed.inbox).docs>>]
            /\ ev' = [Ev("callback") EXCEPT !.handle = feed.gen,
                                            !.issue = Head(feed.inbox).created,
                                            !.fromEmpty = (issues = <<>> /\ issues' # <<>>)]
    /\ UNCHANGED <<route, appUser, upvotedIssues, pending, ledger, docs, notifyDue, remote,
                   run, outcome>>
    /\ UNCHANGED <<now, raw, normalized, users, adds, calls, roleAt, idp, session, procs, mapState>>

\* Some other writer of the 'issues' collection stores a record; the query
\* lists it first.
StoreRecord(d) ==
    /\ Len(docs) < MaxDocs
    /\ d.id \notin DocIds(docs)
    /\ Len(feed.inbox) < MaxInbox
    /\ docs' = <<d>> \o docs
    /\ feed' = Emit(feed, docs', d.id)
    /\ ev' = [Ev("storeRecord") EXCEPT !.issue = d.id]
    /\ UNCHANGED <<clientVars, now, raw, normalized, users, adds, calls, roleAt, idp, session,
                   procs, mapState>>

\* The transport fails: the listener is sent an error, and nothing after it.
TransportError ==
    /\ feed.active
    /\ Len(feed.inbox) < MaxInbox
    /\ \A k \in 1..Len(feed.inbox) : feed.inbox[k].kind # "error"
    /\ feed' = [feed EXCEPT !.inbox = Append(@, [kind |-> "error", docs |-> <<>>,
                                                 created |-> NoIssue])]
    /\ ev' = Ev("transportError")
    /\ UNCHANGED <<pageVars, now, raw, normalized, users, adds, calls, roleAt, idp, session, procs, mapState>>

\* The listener's error callback runs: console.error, nothing else; the SDK has
\* ended the listener.
DeliverError ==
    /\ feed.active
    /\ feed.inbox # <<>>
    /\ Head(feed.inbox).kind = "error"
    /\ feed' = [feed EXCEPT !.active = FALSE, !.inbox = <<>>]
    /\ issues' = OnListenError(issues)
    /\ filteredIssues' = Filter(issues', selectedCategories)
    /\ ev' = [Ev("listenError") EXCEPT !.handle = feed.gen, !.error = "console.error"]
    /\ UNCHANGED <<route, appUser, upvotedIssues, selectedCategories, pending, ledger, docs,
                   notifyDue, remote, run, outcome>>
    /\ UNCHANGED <<now, raw, normalized, users, adds, calls, roleAt, idp, session, procs, mapState>>

(***************************************************************************)
(* issue-service.ts: addCommentToIssue, deleteCommentFromIssue             *)
(***************************************************************************)
NoComment ==
    [id |-> "none", content |-> <<>>, authorId |-> NoUser, authorRole |-> "user",
     createdAt |-> Timestamp(0)]

\* addCommentToIssue(id, content, user) up to its await: it throws, or builds
\* the comment and suspends at updateDoc.  A user with uid NoUser is null.
AddCommentToIssue(id, content, user) ==
    /\ Len(calls) < MaxCalls
    /\ \E c \in CommentIds : roleAt[c] = "none"
    /\ IF Trim(content) = <<>>
       THEN /\ ev' = [Ev("addComment") EXCEPT !.issue = id,
                                              !.error = "O comentário não pode estar vazio."]
            /\ UNCHANGED <<calls, roleAt>>
       ELSE IF user.uid = NoUser
       THEN /\ ev' = [Ev("addComment") EXCEPT !.issue = id,
                                              !.error = "Usuário não autenticado."]
            /\ UNCHANGED <<calls, roleAt>>
       ELSE /\ calls' = Append(calls, [op |-> "addComment", issue |-> id,
                                       cid |-> FreshComment, pc |-> "updateDoc",
                                       comment |-> NewComment(FreshComment, content, user, now)])
            /\ roleAt' = [roleAt EXCEPT ![FreshComment] = user.role]
            /\ ev' = [Ev("addComment") EXCEPT !.issue = id, !.user = user.uid,
                                              !.comment = FreshComment, !.writes = 1]
    /\ UNCHANGED <<pageVars, now, raw, normalized, users, adds, feed, idp, session, procs, mapState>>

\* The updateDoc of addCommentToIssue succeeds.
CommentWriteDone(k) ==
    /\ k \in 1..Len(calls)
    /\ calls[k].op = "addComment"
    /\ calls[k].issue \in DocIds(docs)
    /\ Len(feed.inbox) < MaxInbox
    /\ docs' = WriteComments(docs, calls[k].issue,
                             ArrayUnion(DocOf(docs, calls[k].issue).comments, calls[k].comment))
    /\ feed' = Emit(feed, docs', NoIssue)
    /\ calls' = Without(calls, k)
    /\ ev' = [Ev("arrayUnion") EXCEPT !.issue = calls[k].issue, !.comment = calls[k].cid]
    /\ UNCHANGED <<clientVars, now, raw, normalized, users, adds, roleAt, idp, session, procs, mapState>>

\* The updateDoc of addCommentToIssue rejects (no such issue, or the transport).
CommentWriteFail(k) ==
    /\ k \in 1..Len(calls)
    /\ calls[k].op = "addComment"
    /\ calls' = Without(calls, k)
    /\ ev' = [Ev("arrayUnionFail") EXCEPT !.issue = calls[k].issue, !.comment = calls[k].cid,
                                          !.error = "updateDoc"]
    /\ UNCHANGED <<pageVars, now, raw, normalized, users, adds, feed, roleAt, idp, session, procs, mapState>>

\* deleteCommentFromIssue(id, cid) up to its first await, getDoc.
DeleteCommentFromIssue(id, cid) ==
    /\ Len(calls) < MaxCalls
    /\ calls' = Append(calls, [op |-> "deleteComment", issue |-> id, cid |-> cid,
                               pc |-> "getDoc", comment |-> NoComment])
    /\ ev' = [Ev("deleteComment") EXCEPT !.issue = id, !.comment = cid]
    /\ UNCHANGED <<pageVars, now, raw, normalized, users, adds, feed, roleAt, idp, session, procs, mapState>>

\* getDoc resolves: no such issue throws; a comment that is not found is only
\* warned about and the call returns; a comment that is found is handed to
\* arrayRemove and the call suspends at updateDoc.
GetDocDone(k) ==
    /\ k \in 1..Len(calls)
    /\ calls[k].pc = "getDoc"
    /\ IF calls[k].issue \notin DocIds(docs)
       THEN /\ calls' = Without(calls, k)
            /\ ev' = [Ev("getDoc") EXCEPT !.issue = calls[k].issue, !.comment = calls[k].cid,
                                          !.error = "Ocorrência não encontrada."]
       ELSE LET commentToDelete == FindComment(DocOf(docs, calls[k].issue).comments,
                                               calls[k].cid)
            IN  IF commentToDelete # <<>>
                THEN /\ calls' = [calls EXCEPT ![k].pc = "updateDoc",
                                               ![k].comment = commentToDelete[1]]
                     /\ ev' = [Ev("getDoc") EXCEPT !.issue = calls[k].issue,
                                                   !.comment = calls[k].cid, !.writes = 1]
                ELSE /\ calls' = Without(calls, k)
                     /\ ev' = [Ev("getDoc") EXCEPT !.issue = calls[k].issue,
                                                   !.comment = calls[k].cid, !.warned = TRUE]
    /\ UNCHANGED <<pageVars, now, raw, normalized, users, adds, feed, roleAt, idp, session, procs, mapState>>

\* getDoc rejects: deleteCommentFromIssue rejects with its error.
GetDocFail(k) ==
    /\ k \in 1..Len(calls)
    /\ calls[k].pc = "getDoc"
    /\ calls' = Without(calls, k)
    /\ ev' = [Ev("getDocFail") EXCEPT !.issue = calls[k].issue, !.comment = calls[k].cid,
                                      !.error = "getDoc"]
    /\ UNCHANGED <<pageVars, now, raw, normalized, users, adds, feed, roleAt, idp, session, procs, mapState>>

\* The updateDoc of deleteCommentFromIssue succeeds.
RemoveDone(k) ==
    /\ k \in 1..Len(calls)
    /\ calls[k].op = "deleteComment"
    /\ calls[k].pc = "updateDoc"
    /\ calls[k].issue \in DocIds(docs)
    /\ Len(feed.inbox) < MaxInbox
    /\ docs' = WriteComments(docs, calls[k].issue,
                             ArrayRemove(DocOf(docs, calls[k].issue).comments, calls[k].comment))
    /\ feed' = Emit(feed, docs', NoIssue)
    /\ calls' = Without(calls, k)
    /\ ev' = [Ev("arrayRemove") EXCEPT !.issue = calls[k].issue, !.comment = calls[k].cid]
    /\ UNCHANGED <<clientVars, now, raw, normalized, users, adds, roleAt, idp, session, procs, mapState>>

\* The updateDoc of deleteCommentFromIssue rejects (no such issue, or the transport).
RemoveFail(k) ==
    /\ k \in 1..Len(calls)
    /\ calls[k].op = "deleteComment"
    /\ calls[k].pc = "updateDoc"
    /\ calls' = Without(calls, k)
    /\ ev' = [Ev("arrayRemoveFail") EXCEPT !.issue = calls[k].issue, !.comment = calls[k].cid,
                                           !.error = "updateDoc"]
    /\ UNCHANGED <<pageVars, now, raw, normalized, users, adds, feed, roleAt, idp, session, procs, mapState>>

\* An administrator changes the role in a user record.
RoleChange(u, r) ==
    /\ users[u].present
    /\ users[u].role # r
    /\ users' = [users EXCEPT ![u].role = r]
    /\ ev' = [Ev("roleChange") EXCEPT !.user = u]
    /\ UNCHANGED <<pageVars, now, raw, normalized, adds, feed, calls, roleAt, idp, session, procs, mapState>>

(***************************************************************************)
(* auth-context.tsx: AuthProvider                                          *)
(***************************************************************************)
\* name || user.displayName || user.email?.split('@')[0] || 'Usuário'
NewName(name, displayName, emailPrefix) ==
    IF name # "" THEN name
    ELSE IF displayName # "" THEN displayName
    ELSE IF emailPrefix # "" THEN emailPrefix
    ELSE "Usuário"

\* handleNewUser, the record it stores with setDoc.
NewUserDocData(newName) ==
    [present |-> TRUE, name |-> newName, role |-> "user", issuesReported |-> 0]

\* A call that ran to its end: a handler is gone, the promise register returned
\* stays as fulfilled.
Returned(q, k) ==
    IF q[k].kind = "register" THEN [q EXCEPT ![k].pc = "done"] ELSE Without(q, k)

\* Some auth-state handler is suspended at an await.
HandlerPending == \E k \in 1..Len(procs) : procs[k].kind = "handler"

\* The auth-state handler up to its await, for a signed-in user.
HandlerFor(u, displayName) ==
    [kind |-> "handler", uid |-> u, name |-> "", displayName |-> displayName, pc |-> "fetch"]

\* register(email, pass, name): createUserWithEmailAndPassword makes the account
\* and signs it in, which notifies the auth-state listener; register goes on to
\* handleNewUser(user, name) and suspends at its getDoc.
Register(u, name) ==
    /\ idp.current = NoUser
    /\ u \notin idp.accounts
    /\ Len(procs) + 2 <= MaxProcs
    /\ idp' = [current |-> u, accounts |-> idp.accounts \cup {u}]
    /\ session' = [session EXCEPT !.isLoading = TRUE, !.authUser = u]
    /\ procs' = procs \o <<HandlerFor(u, ""),
                            [kind |-> "register", uid |-> u, name |-> name,
                             displayName |-> "", pc |-> "getDoc"]>>
    /\ ev' = [Ev("register") EXCEPT !.user = u]
    /\ UNCHANGED <<pageVars, users, authSvcVars>>

\* login / loginWithGoogle: the provider signs the user in and notifies the
\* auth-state listener, whose handler suspends at fetchAppUser.
SignIn(u, displayName) ==
    /\ idp.current = NoUser
    /\ Len(procs) < MaxProcs
    /\ idp' = [current |-> u, accounts |-> idp.accounts \cup {u}]
    /\ session' = [session EXCEPT !.isLoading = TRUE, !.authUser = u]
    /\ procs' = Append(procs, HandlerFor(u, displayName))
    /\ ev' = [Ev("signIn") EXCEPT !.user = u]
    /\ UNCHANGED <<pageVars, users, authSvcVars>>

\* logout(): signOut notifies the listener, whose handler clears the state
\* without an await; then router.push('/login') unmounts the page.
Logout ==
    /\ idp.current # NoUser
    /\ idp' = [idp EXCEPT !.current = NoUser]
    /\ session' = [authUser |-> NoUser, name |-> "", role |-> "user", isAdmin |-> FALSE,
                   isLoading |-> FALSE]
    /\ appUser' = NoUser
    /\ route' = "/login"
    /\ pending' = Detached(pending)
    /\ issues' = <<>>
    /\ selectedCategories' = <<>>
    /\ filteredIssues' = <<>>
    /\ upvotedIssues' = {}
    /\ run' = [i \in IssueIds |-> ZeroRun]
    /\ notifyDue' = FALSE
    /\ ev' = [Ev("logout") EXCEPT !.proc = "handler", !.done = TRUE]
    /\ UNCHANGED <<ledger, docs, remote, outcome, users, procs, authSvcVars>>

\* The handler's fetchAppUser resolves: a stored profile is published and the
\* handler finishes; without one the handler calls handleNewUser(user), which
\* suspends at its getDoc.
HandlerFetchDone(k) ==
    /\ k \in 1..Len(procs)
    /\ procs[k].pc = "fetch"
    /\ IF users[procs[k].uid].present
       THEN /\ session' = [session EXCEPT !.name = users[procs[k].uid].name,
                                          !.role = users[procs[k].uid].role,
                                          !.isAdmin = (users[procs[k].uid].role = "admin"),
                                          !.isLoading = FALSE]
            /\ appUser' = procs[k].uid
            /\ upvotedIssues' = IF route = "/" THEN LedgerLoad(procs[k].uid, upvotedIssues)
                                               ELSE upvotedIssues
            /\ run' = RunAfter(upvotedIssues', NoIssue, FALSE)
            /\ procs' = Without(procs, k)
            /\ ev' = [Ev("fetchAppUser") EXCEPT !.user = procs[k].uid, !.proc = "handler",
                                                !.done = TRUE]
       ELSE /\ procs' = [procs EXCEPT ![k].pc = "getDoc"]
            /\ ev' = [Ev("fetchAppUser") EXCEPT !.user = procs[k].uid, !.proc = "handler"]
            /\ UNCHANGED <<session, appUser, upvotedIssues, run>>
    /\ UNCHANGED <<authPageVars, users, idp, authSvcVars>>

\* The getDoc of handleNewUser resolves: an existing record is fetched again,
\* a missing one is to be created.
HnuGetDocDone(k) ==
    /\ k \in 1..Len(procs)
    /\ procs[k].pc = "getDoc"
    /\ procs' = [procs EXCEPT ![k].pc = IF users[procs[k].uid].present THEN "refetch"
                                                                       ELSE "setDoc"]
    /\ ev' = [Ev("getDocUser") EXCEPT !.user = procs[k].uid, !.proc = procs[k].kind]
    /\ UNCHANGED <<pageVars, users, idp, session, authSvcVars>>

\* The fetchAppUser of handleNewUser resolves: the profile is published and
\* handleNewUser returns; a handler then sets isAdmin and isLoading to false.
HnuRefetchDone(k) ==
    /\ k \in 1..Len(procs)
    /\ procs[k].pc = "refetch"
    /\ LET found == users[procs[k].uid].present
           handler == procs[k].kind = "handler"
       IN  /\ session' = [session EXCEPT
                              !.name = IF found THEN users[procs[k].uid].name ELSE @,
                              !.role = IF found THEN users[procs[k].uid].role ELSE @,
                              !.isAdmin = IF handler THEN FALSE
                                          ELSE IF found THEN users[procs[k].uid].role = "admin"
                                          ELSE @,
                              !.isLoading = IF handler THEN FALSE ELSE @]
           /\ appUser' = IF found THEN procs[k].uid ELSE appUser
           /\ upvotedIssues' = IF found /\ route = "/"
                               THEN LedgerLoad(procs[k].uid, upvotedIssues)
                               ELSE upvotedIssues
    /\ run' = RunAfter(upvotedIssues', NoIssue, FALSE)
    /\ procs' = Returned(procs, k)
    /\ ev' = [Ev("refetchAppUser") EXCEPT !.user = procs[k].uid, !.proc = procs[k].kind,
                                          !.done = TRUE]
    /\ UNCHANGED <<authPageVars, users, idp, authSvcVars>>

\* The setDoc of handleNewUser resolves: the record is stored, the new profile
\* is published and handleNewUser returns; a handler then sets isAdmin and
\* isLoading to false.
HnuSetDocDone(k) ==
    /\ k \in 1..Len(procs)
    /\ procs[k].pc = "setDoc"
    /\ users' = [users EXCEPT ![procs[k].uid] =
                     NewUserDocData(NewName(procs[k].name, procs[k].displayName, "ana"))]
    /\ session' = [session EXCEPT
                       !.name = users'[procs[k].uid].name,
                       !.role = "user",
                       !.isAdmin = IF procs[k].kind = "handler" THEN FALSE ELSE @,
                       !.isLoading = IF procs[k].kind = "handler" THEN FALSE ELSE @]
    /\ appUser' = procs[k].uid
    /\ upvotedIssues' = IF route = "/" THEN LedgerLoad(procs[k].uid, upvotedIssues)
                                       ELSE upvotedIssues
    /\ run' = RunAfter(upvotedIssues', NoIssue, FALSE)
    /\ procs' = Returned(procs, k)
    /\ ev' = [Ev("setDocUser") EXCEPT !.user = procs[k].uid, !.proc = procs[k].kind,
                                      !.done = TRUE, !.writes = 1]
    /\ UNCHANGED <<authPageVars, idp, authSvcVars>>

\* A read or the write of a handler or of register rejects: nothing catches
\* it, the rest of the function does not run.
AuthCallFail(k) ==
    /\ k \in 1..Len(procs)
    /\ procs[k].pc # "done"
    /\ procs' = Without(procs, k)
    /\ ev' = [Ev("authFail") EXCEPT !.user = procs[k].uid, !.proc = procs[k].kind,
                                    !.error = procs[k].pc]
    /\ UNCHANGED <<pageVars, users, idp, session, authSvcVars>>

(***************************************************************************)
(* map.tsx: MapComponent, its handlers                                     *)
(***************************************************************************)
\* The issue the map was handed (the issues prop) under that id.
IssueOf(id) == CHOOSE i \in Range(filteredIssues) : i.id = id

\* handleMapClick(event) up to its await: the issue popup is closed, geocoding
\* is on, the map flies to the point and the lookup is sent. While geocoding is
\* on, the overlay covers the map for the pointer.
HandleMapClick(p) ==
    /\ ~mapState.geocoding
    /\ mapState' = [mapState EXCEPT
                        !.popupInfo = NoIssue,
                        !.geocoding = TRUE,
                        !.view = [lat |-> p.lat, lng |-> p.lng,
                                  zoom |-> Max(mapState.view.zoom, MapClickZoom)],
                        !.lookups = Append(@, p)]
    /\ ev' = Ev("mapClick")
    /\ UNCHANGED <<pageVars, now, raw, normalized, users, adds, feed, calls, roleAt, idp,
                   session, procs>>

\* The lookup of handleMapClick settles (the overlay lets one click through at
\* a time, so it is the only one): the try block stores the location with its
\* address or the catch block does; finally geocoding is off.
GeocodeSettles(reply) ==
    /\ mapState.lookups # <<>>
    /\ LET p == Head(mapState.lookups)
       IN  mapState' = [mapState EXCEPT
                            !.newIssueLocation =
                                [set |-> TRUE, lat |-> p.lat, lng |-> p.lng,
                                 address |-> AddressOf(reply, p.lat, p.lng)],
                            !.geocoding = FALSE,
                            !.lookups = Tail(@)]
    /\ ev' = [Ev("geocode") EXCEPT !.error = reply]
    /\ UNCHANGED <<pageVars, now, raw, normalized, users, adds, feed, calls, roleAt, idp,
                   session, procs>>

\* onClick of an issue marker (a button, which the keyboard activates too):
\* the pending location is dropped, the popup shows the issue, the map flies
\* to the marker.
MarkerClick(id) ==
    /\ \E i \in Range(filteredIssues) : i.id = id
    /\ mapState' = [mapState EXCEPT
                        !.newIssueLocation = NoLocation,
                        !.popupInfo = id,
                        !.view = [lat |-> Degrees(IssueOf(id).location.lat),
                                  lng |-> Degrees(IssueOf(id).location.lng),
                                  zoom |-> MarkerTargetZoom(mapState.view.zoom)]]
    /\ ev' = [Ev("markerClick") EXCEPT !.issue = id,
                                       !.hadLocation = mapState.newIssueLocation.set]
    /\ UNCHANGED <<pageVars, now, raw, normalized, users, adds, feed, calls, roleAt, idp,
                   session, procs>>

\* onClose of the issue popup.
ClosePopup ==
    /\ mapState.popupInfo # NoIssue
    /\ mapState' = [mapState EXCEPT !.popupInfo = NoIssue]
    /\ ev' = Ev("closePopup")
    /\ UNCHANGED <<pageVars, now, raw, normalized, users, adds, feed, calls, roleAt, idp,
                   session, procs>>

\* onClose of the confirm-location popup, or its Cancelar button.
CancelLocation ==
    /\ mapState.newIssueLocation.set
    /\ mapState' = [mapState EXCEPT !.newIssueLocation = NoLocation]
    /\ ev' = Ev("cancelLocation")
    /\ UNCHANGED <<pageVars, now, raw, normalized, users, adds, feed, calls, roleAt, idp,
                   session, procs>>

\* The user zooms the map with the navigation control or a gesture.
ZoomTo(z) ==
    /\ z # mapState.view.zoom
    /\ mapState' = [mapState EXCEPT !.view.zoom = z]
    /\ ev' = Ev("zoom")
    /\ UNCHANGED <<pageVars, now, raw, normalized, users, adds, feed, calls, roleAt, idp,
                   session, procs>>

(***************************************************************************)
(* Specifications                                                          *)
(***************************************************************************)
NextUpvote ==
    \/ Notify
    \/ \E k \in 1..MaxDocs : HandleUpvote(k)
    \/ ResolveOk
    \/ ResolveFail
    \/ \E u \in Users \cup {NoUser} : AuthStateChanged(u)
    \/ LeavePage
    \/ OpenMapPage

SpecUpvote == InitUpvote /\ [][NextUpvote]_vars

NextCount ==
    \/ Notify
    \/ \E k \in 1..MaxDocs : HandleUpvote(k)
    \/ ResolveOk
    \/ ResolveFail
    \/ \E u \in Users \cup {NoUser} : AuthStateChanged(u)
    \/ \E r \in Remotes, id \in IssueIds : RemoteObserve(r, id)
    \/ \E r \in Remotes, id \in IssueIds : RemoteUpvote(r, id)

SpecCount == InitCount /\ [][NextCount]_vars

NextFilter ==
    \/ Notify
    \/ \E c \in Categories : HandleCategoryChange(c)
    \/ \E id \in IssueIds, c \in Categories : AddIssue(id, c)
    \/ \E id \in IssueIds : DeleteIssue(id)
    \/ LeavePage
    \/ OpenMapPage

SpecFilter == InitFilter /\ [][NextFilter]_vars

(***************************************************************************)
(* fromFirestore on its own: any raw record, one call                      *)
(***************************************************************************)
\* A stored comment: addCommentToIssue stamps it with Timestamp.now().
RawComments ==
    [id : CommentIds, content : {<<"a">>}, authorId : Users, authorRole : Roles,
     createdAt : {Timestamp(t) : t \in Times}]

\* Comment arrays of at most MaxComments comments, each with its own id.
RawCommentLists ==
    UNION {{cs \in [1..n -> RawComments] :
                \A j, k \in 1..n : j # k => cs[j].id # cs[k].id} : n \in 0..MaxComments}

\* Raw records: every combination of optional fields present or missing.
RawRecords ==
    {d \in [id : {"i1"}, title : {<<"a">>}, category : {"A"}, status : {"Recebido"},
            upvotes : 0..MaxCount,
            imageUrl : {<<"https://placehold.co/600x400.png?text=", "a">>},
            reportedAt : {Timestamp(t) : t \in Times},
            location : {[latitude |-> 0, longitude |-> 0]},
            comments : RawCommentLists, has : SUBSET OptionalFields] :
        /\ "upvotes" \notin d.has => d.upvotes = 0
        /\ "reportedAt" \notin d.has => d.reportedAt = Timestamp(0)
        /\ "comments" \notin d.has => d.comments = <<>>}

InitNormalize ==
    /\ InitPage
    /\ docs = <<>>
    /\ now \in Times
    /\ raw \in {<<d>> : d \in RawRecords}
    /\ normalized = NotNormalized
    /\ InitService
    /\ feed = NoFeed
    /\ InitAuthIdle

\* One call fromFirestore(raw): it raises or returns the domain issue.
Normalize ==
    /\ ~normalized.done
    /\ normalized' = IF Raises(raw[1])
                     THEN [done |-> TRUE, raised |-> TRUE, out |-> <<>>]
                     ELSE [done |-> TRUE, raised |-> FALSE, out |-> <<FromFirestore(raw[1])>>]
    /\ ev' = Ev("fromFirestore")
    /\ UNCHANGED <<pageVars, now, raw, users, adds, feed, calls, roleAt, idp, session, procs, mapState>>

NextNormalize == Normalize

SpecNormalize == InitNormalize /\ [][NextNormalize]_vars

(***************************************************************************)
(* addIssueClient on its own: any argument                                 *)
(***************************************************************************)
Coordinates == [kind : {"number", "NaN", "string", "missing"}, val : {0}]

\* The parts of an argument that are not a filled text, a uid or a finite number.
Defects(i) ==
    {f \in {"title", "description", "address"} : f \notin i.has}
        \cup (IF i.title \in {<<>>, Blank} THEN {"title"} ELSE {})
        \cup (IF i.description \in {<<>>, Blank} THEN {"description"} ELSE {})
        \cup (IF i.address \in {<<>>, Blank} THEN {"address"} ELSE {})
        \cup (IF i.reporterId = "" THEN {"reporterId"} ELSE {})
        \cup (IF i.lat.kind # "number" THEN {"lat"} ELSE {})
        \cup (IF i.lng.kind # "number" THEN {"lng"} ELSE {})

\* addIssueClient arguments: each text field missing, empty, blank or filled, each
\* coordinate a number, NaN, a string or missing; at most one part wrong at a time.
IssueInputs ==
    {i \in [title : Texts, description : {<<>>, Blank, <<"a">>}, address : {<<>>, Blank, <<"a">>},
            category : {"A"}, reporterId : {""} \cup Users,
            lat : Coordinates, lng : Coordinates,
            has : SUBSET {"title", "description", "address"}] :
        /\ "title" \notin i.has => i.title = <<>>
        /\ "description" \notin i.has => i.description = <<>>
        /\ "address" \notin i.has => i.address = <<>>
        /\ Cardinality(Defects(i)) <= 1}

InitAddIssue ==
    /\ InitPage
    /\ docs = <<>>
    /\ now = 0
    /\ InitNorm
    /\ users \in [Users -> {UserDoc("user"), NoUserDoc}]
    /\ adds = <<>>
    /\ calls = <<>>
    /\ roleAt = [c \in CommentIds |-> "none"]
    /\ feed = NoFeed
    /\ InitAuthIdle

NextAddIssue ==
    \/ \E i \in IssueInputs : AddIssueClient(i)
    \/ \E k \in 1..MaxAdds : AddDocDone(k)
    \/ \E k \in 1..MaxAdds : AddDocFail(k)
    \/ \E k \in 1..MaxAdds : UpdateUserDone(k)
    \/ \E k \in 1..MaxAdds : UpdateUserFail(k)

SpecAddIssue == InitAddIssue /\ [][NextAddIssue]_vars

(***************************************************************************)
(* The feed: a mounted map page listening while the collection changes     *)
(***************************************************************************)
Number == [kind |-> "number", val |-> 0]

\* Two reports the service accepts and one it rejects.
FeedInputs ==
    {[title |-> <<" ", "a", " ">>, description |-> <<"a">>, address |-> <<"a">>,
      category |-> "A", reporterId |-> "u1", lat |-> Number, lng |-> Number,
      has |-> {"title", "description", "address"}],
     [title |-> <<"a">>, description |-> <<"a">>, address |-> <<"a">>,
      category |-> "", reporterId |-> "u1", lat |-> Number, lng |-> Number,
      has |-> {"title", "description", "address"}],
     [title |-> <<"a">>, description |-> <<"a">>, address |-> Blank,
      category |-> "A", reporterId |-> "u1", lat |-> Number, lng |-> Number,
      has |-> {"title", "description", "address"}]}

InitFeed ==
    /\ InitPage
    /\ docs = <<>>
    /\ now = 0
    /\ InitNorm
    /\ InitService
    /\ feed = Listen(NoFeed, docs)
    /\ InitAuthIdle

NextFeed ==
    \/ MountPage
    \/ UnmountPage
    \/ \E g \in 1..MaxSubs : UnsubscribeAgain(g)
    \/ DeliverSnapshot
    \/ TransportError
    \/ DeliverError
    \/ \E id \in IssueIds, c \in {"A", "B"} : AddIssue(id, c)
    \/ \E id \in IssueIds : DeleteIssue(id)

SpecFeed == InitFeed /\ [][NextFeed]_vars

\* A listening page while other writers store records, malformed ones included.
StoredComment(stamp) ==
    [id |-> "c1", content |-> <<"a">>, authorId |-> "u1", authorRole |-> "user",
     createdAt |-> stamp]

StoredRecords ==
    UNION {{Doc(id, "A"),
            [Doc(id, "A") EXCEPT !.has = @ \ {"location"}],
            [Doc(id, "A") EXCEPT !.comments = <<StoredComment(Timestamp(0))>>],
            [Doc(id, "A") EXCEPT !.comments = <<StoredComment(NoTimestamp)>>]} : id \in IssueIds}

NextIngest ==
    \/ \E d \in StoredRecords : StoreRecord(d)
    \/ \E id \in IssueIds : DeleteIssue(id)
    \/ DeliverSnapshot

SpecIngest == InitFeed /\ [][NextIngest]_vars

\* A listening page while issues are reported through addIssueClient.
NextReport ==
    \/ \E i \in FeedInputs : AddIssueClient(i)
    \/ \E k \in 1..MaxAdds : AddDocDone(k)
    \/ \E k \in 1..MaxAdds : AddDocFail(k)
    \/ \E k \in 1..MaxAdds : UpdateUserDone(k)
    \/ \E k \in 1..MaxAdds : UpdateUserFail(k)
    \/ DeliverSnapshot

SpecReport == InitFeed /\ [][NextReport]_vars

(***************************************************************************)
(* Comments on one issue                                                   *)
(***************************************************************************)
\* The AppUser objects a caller may hand to addCommentToIssue: the profile of a
\* session, whose role is the one read at sign-in, or null.
AppUsers == [uid : Users \cup {NoUser}, role : Roles]

InitComments ==
    /\ InitPage
    /\ docs = <<Doc("i1", "A")>>
    /\ now = 0
    /\ InitNorm
    /\ InitService
    /\ feed = NoFeed
    /\ InitAuthIdle

NextComments ==
    \/ \E content \in {Blank, <<"a">>}, user \in AppUsers : AddCommentToIssue("i1", content, user)
    \/ \E k \in 1..MaxCalls : CommentWriteDone(k)
    \/ \E k \in 1..MaxCalls : CommentWriteFail(k)
    \/ \E cid \in CommentIds : DeleteCommentFromIssue("i1", cid)
    \/ \E k \in 1..MaxCalls : GetDocDone(k)
    \/ \E k \in 1..MaxCalls : GetDocFail(k)
    \/ \E k \in 1..MaxCalls : RemoveDone(k)
    \/ \E k \in 1..MaxCalls : RemoveFail(k)
    \/ \E u \in Users, r \in Roles : RoleChange(u, r)
    \/ DeleteIssue("i1")

SpecComments == InitComments /\ [][NextComments]_vars

(***************************************************************************)
(* The auth context: one identity registering, signing in and out          *)
(***************************************************************************)
InitAuth ==
    /\ InitPage
    /\ docs = <<>>
    /\ now = 0
    /\ InitNorm
    /\ users \in [Users -> {NoUserDoc, UserDoc("user")}]
    /\ adds = <<>>
    /\ calls = <<>>
    /\ roleAt = [c \in CommentIds |-> "none"]
    /\ feed = NoFeed
    /\ idp = [current |-> NoUser, accounts |-> {u \in Users : users[u].present}]
    /\ session = NoSession
    /\ procs = <<>>

NextAuth ==
    \/ \E u \in Users : Register(u, "Ana")
    \/ \E u \in Users, d \in {"", "Ana G"} : SignIn(u, d)
    \/ Logout
    \/ \E k \in 1..MaxProcs : HandlerFetchDone(k)
    \/ \E k \in 1..MaxProcs : HnuGetDocDone(k)
    \/ \E k \in 1..MaxProcs : HnuRefetchDone(k)
    \/ \E k \in 1..MaxProcs : HnuSetDocDone(k)
    \/ \E k \in 1..MaxProcs : AuthCallFail(k)
    \/ \E u \in Users, r \in Roles : RoleChange(u, r)

SpecAuth == InitAuth /\ [][NextAuth]_vars

\* Every awaited read or write of a handler or of register settles: it resolves
\* or it rejects.
AwaitSettles ==
    \E k \in 1..MaxProcs :
        \/ HandlerFetchDone(k)
        \/ HnuGetDocDone(k)
        \/ HnuRefetchDone(k)
        \/ HnuSetDocDone(k)
        \/ AuthCallFail(k)

SpecAuthFair == SpecAuth /\ WF_vars(AwaitSettles)

\* The map component over a published list of two issues.
ClickPoints ==
    {[lat |-> LngLat(TRUE, 15794126), lng |-> LngLat(TRUE, 47882004)],
     [lat |-> LngLat(TRUE, 4), lng |-> LngLat(FALSE, 9999995)]}

Zooms == {InitialZoom - 1, InitialZoom, MapClickZoom + 2}

InitMap ==
    /\ InitPage
    /\ docs = <<Doc("i2", "B"), Doc("i1", "A")>>
    /\ now = 0
    /\ InitNorm
    /\ InitService
    /\ feed = Listen(NoFeed, docs)
    /\ InitAuthIdle

NextMap ==
    \/ DeliverSnapshot
    \/ \E p \in ClickPoints : HandleMapClick(p)
    \/ \E reply \in Replies : GeocodeSettles(reply)
    \/ \E id \in IssueIds : MarkerClick(id)
    \/ ClosePopup
    \/ CancelLocation
    \/ \E z \in Zooms : ZoomTo(z)

SpecMap == InitMap /\ [][NextMap]_vars

(***************************************************************************)
(* Properties                                                              *)
(***************************************************************************)
Listed(id) == \E k \in 1..Len(issues) : issues[k].id = id

Visible(x) == x \in Range(filteredIssues)

InFlight(id) == \E k \in 1..Len(pending) : pending[k].issue = id

LedgerIds(u) == IF ledger[u].present THEN ledger[u].ids ELSE {}

\* The stored comments with their creation times converted, in stored order.
Converted(cs) == [k \in 1..Len(cs) |-> [cs[k] EXCEPT !.createdAt = ToDate(@)]]

\* s is a rearrangement of t (comment ids are unique within a record).
IsPermutation(s, t) == Len(s) = Len(t) /\ Range(s) = Range(t)

\* C1: when the persistence call of a handleUpvote fails, then as that call
\* resolves the failure notification fires exactly once and, on the page that
\* made the call, the issue is not in the in-memory upvoted set.
C1_FailedUpvoteRolledBack ==
    ev.op = "resolveFail" =>
        /\ ev.toasts = <<"error">>
        /\ ev.live => ev.issue \notin upvotedIssues

C1_Witness ==
    /\ ev.op = "resolveFail"
    /\ ev.live
    /\ ev.toasts = <<"error">>
    /\ ev.issue \notin upvotedIssues
    /\ pending # <<>>

\* C2: while an issue stays in the upvoted set, a second handleUpvote on it by
\* the signed-in user issues no further persistence call: two or more calls in
\* such a period make exactly one call to updateIssueUpvotes.
C2_SecondUpvoteIsNoOp ==
    \A i \in IssueIds : run[i].inv >= 2 => run[i].calls = 1

C2_Witness ==
    \E i, j \in IssueIds :
        /\ run[i].inv = 2 /\ run[i].calls = 1 /\ InFlight(i)
        /\ run[j].inv = 2 /\ run[j].calls = 1 /\ ~InFlight(j)
        /\ outcome["u1"][j] = "succeeded"

\* C3: an issue whose upvote writes only ever failed is not in the user's
\* stored ledger.
C3_FailedNeverInLedger ==
    \A u \in Users : \A i \in IssueIds :
        outcome[u][i] = "failed" => i \notin LedgerIds(u)

\* C4: as a successful upvote resolves the user's ledger contains its issue,
\* and when no upvote is in flight the ledger contains every issue whose
\* upvote succeeded.
C4_LedgerKeepsSuccesses ==
    /\ ev.op = "resolveOk" => ev.issue \in LedgerIds(ev.user)
    /\ pending = <<>> =>
          \A u \in Users : \A i \in IssueIds :
              outcome[u][i] = "succeeded" => i \in LedgerIds(u)

\* C5: no step lowers the stored upvote count of an issue.
C5_StoredCountNeverDecreases ==
    [][\A id \in IssueIds : StoredUpvotes(id)' >= StoredUpvotes(id)]_vars

\* C6: handleUpvote with no signed-in user issues no persistence call, leaves
\* the in-memory upvoted set, the ledger and the stored documents unchanged,
\* and redirects to /login.
C6_SignedOutUpvoteRejected ==
    [][(ev'.op = "upvote" /\ appUser = NoUser) =>
          /\ ev'.persist = 0
          /\ Len(pending') = Len(pending)
          /\ upvotedIssues' = upvotedIssues
          /\ ledger' = ledger
          /\ docs' = docs
          /\ ev'.redirect = "/login"
          /\ route' = "/login"]_vars

C6_Witness ==
    /\ ev.op = "upvote"
    /\ ev.user = NoUser
    /\ ev.persist = 0
    /\ ev.redirect = "/login"
    /\ route = "/login"
    /\ upvotedIssues # {}
    /\ ev.issue \notin upvotedIssues

\* C7: once issues are loaded, a notification leaves the selected categories
\* as they were.
C7_NotificationKeepsSelection ==
    [][(ev'.op = "notify" /\ issues # <<>>) =>
          selectedCategories' = selectedCategories]_vars

\* C8: when a notification takes the issue list from empty to non-empty, the
\* selected categories are exactly the distinct categories of the loaded
\* issues, each once.
C8_InitialSelectionIsAllCategories ==
    (ev.op = "notify" /\ ev.fromEmpty) =>
        /\ Range(selectedCategories) = {issues[k].category : k \in 1..Len(issues)}
        /\ Len(selectedCategories) = Cardinality(Range(selectedCategories))

C8_Witness ==
    /\ ev.op = "notify"
    /\ ev.fromEmpty
    /\ Range(selectedCategories) = {"A", "B"}

\* C9: an issue of the list is displayed exactly when its category is selected
\* or nothing is selected, and nothing else is displayed.
C9_FilterPredicate ==
    /\ \A x \in Range(issues) :
          Visible(x) <=> (selectedCategories = <<>>
                          \/ x.category \in Range(selectedCategories))
    /\ Range(filteredIssues) \subseteq Range(issues)

C9_Witness ==
    /\ selectedCategories # <<>>
    /\ \E x \in Range(issues) : ~Visible(x)
    /\ \E x \in Range(issues) : Visible(x)

\* C10 as stated: toggling a selected category off hides every issue of that
\* category and keeps the issues of the other selected categories displayed.
C10_ToggleOffHides ==
    (ev.op = "toggle" /\ ev.wasSelected) =>
        /\ \A x \in Range(issues) : x.category = ev.category => ~Visible(x)
        /\ \A x \in Range(issues) :
              x.category \in Range(selectedCategories) => Visible(x)

\* C10 amended: toggling a selected category off hides every issue of that
\* category and keeps the issues of the other selected categories displayed,
\* provided another category stays selected; toggling off the only selected
\* category empties the selection and every issue is displayed.
C10_ToggleOffHidesUnlessLast ==
    (ev.op = "toggle" /\ ev.wasSelected) =>
        IF selectedCategories # <<>>
        THEN /\ \A x \in Range(issues) : x.category = ev.category => ~Visible(x)
             /\ \A x \in Range(issues) :
                   x.category \in Range(selectedCategories) => Visible(x)
        ELSE \A x \in Range(issues) : Visible(x)

C10_Witness ==
    /\ ev.op = "toggle"
    /\ ev.wasSelected
    /\ selectedCategories # <<>>
    /\ \E x \in Range(issues) : x.category = ev.category /\ ~Visible(x)
    /\ \E x \in Range(issues) : x.category # ev.category /\ Visible(x)

\* C11: once the handle of a listener was invoked, the callback given to
\* listenToIssues is never invoked for that listener again, and invoking the
\* handle a second time changes nothing and raises nothing.
C11_NoCallbackAfterUnsubscribe ==
    [][/\ \A g \in feed.cancelled : ~(ev'.op = "callback" /\ ev'.handle = g)
       /\ ev'.op = "unsubscribeAgain" =>
              /\ ev'.error = ""
              /\ feed' = feed
              /\ issues' = issues]_vars

C11_Witness ==
    /\ ev.op = "unsubscribeAgain"
    /\ ev.handle = 1
    /\ feed.gen = 2
    /\ feed.active
    /\ feed.inbox # <<>>

\* C12: while the page is subscribed, after any sequence of notifications its
\* issue list is the normalization of the last snapshot delivered, whole and in
\* the snapshot's order, with nothing kept from earlier lists.
C12_ListIsLastSnapshot ==
    (route = "/" /\ feed.last # <<>>) =>
        /\ Len(issues) = Len(feed.last[1])
        /\ \A k \in 1..Len(issues) : issues[k] = FromFirestore(feed.last[1][k])

C12_Witness ==
    /\ ev.op = "callback"
    /\ Len(feed.last[1]) = 2
    /\ Len(issues) = 2
    /\ feed.inbox # <<>>
    /\ Head(feed.inbox).docs # feed.last[1]

\* C13: a transport failure of the subscription is only logged: the callback is
\* not invoked, the published list stays as it was, and no listener is set up
\* in place of the failed one.
C13_ListenErrorOnlyLogged ==
    [][ev'.op = "listenError" =>
          /\ ev'.error = "console.error"
          /\ issues' = issues
          /\ filteredIssues' = filteredIssues
          /\ feed'.gen = feed.gen
          /\ ~feed'.active
          /\ feed'.inbox = <<>>]_vars

C13_Witness ==
    /\ ev.op = "listenError"
    /\ issues # <<>>
    /\ Len(docs) > Len(issues)
    /\ ~feed.active

\* C14: a raw record that lacks its comments, its upvotes or its report
\* timestamp (and has its location) is normalized without an error, to an
\* issue with no comments, zero upvotes, or the time of the call, respectively.
C14_MissingFieldsDefaulted ==
    (normalized.done /\ "location" \in raw[1].has) =>
        /\ ~normalized.raised
        /\ Len(normalized.out) = 1
        /\ "comments" \notin raw[1].has => normalized.out[1].comments = <<>>
        /\ "upvotes" \notin raw[1].has => normalized.out[1].upvotes = 0
        /\ "reportedAt" \notin raw[1].has => normalized.out[1].reportedAt = now

C14_Witness ==
    /\ normalized.done
    /\ raw[1].has = {"location"}
    /\ now > 0
    /\ normalized.out[1].reportedAt = now

\* C15: the normalized comments are the stored comments rearranged so that
\* creation times never increase along the list, and strictly decrease when
\* all creation times differ.
C15_CommentsNewestFirst ==
    (normalized.done /\ ~normalized.raised) =>
        LET out == normalized.out[1].comments
            stored == Converted(CommentsOf(raw[1]))
        IN  /\ IsPermutation(out, stored)
            /\ \A k \in 1..(Len(out) - 1) : out[k].createdAt >= out[k + 1].createdAt
            /\ (\A j, k \in 1..Len(stored) :
                    j # k => raw[1].comments[j].createdAt # raw[1].comments[k].createdAt)
                => \A k \in 1..(Len(out) - 1) : out[k].createdAt > out[k + 1].createdAt

C15_Witness ==
    /\ normalized.done
    /\ ~normalized.raised
    /\ Len(raw[1].comments) = 2
    /\ ToDate(raw[1].comments[1].createdAt) < ToDate(raw[1].comments[2].createdAt)
    /\ normalized.out[1].comments[1].id = raw[1].comments[2].id

\* The argument lacks what the service requires: a title, description or
\* address that is missing or all whitespace, no reporter id, or a coordinate
\* that is not a number or is NaN.
Unacceptable(i) ==
    \/ \E f \in {"title", "description", "address"} : f \notin i.has
    \/ \A k \in 1..Len(i.title) : i.title[k] = " "
    \/ \A k \in 1..Len(i.description) : i.description[k] = " "
    \/ \A k \in 1..Len(i.address) : i.address[k] = " "
    \/ i.reporterId = ""
    \/ i.lat.kind # "number"
    \/ i.lng.kind # "number"

\* C16: addIssueClient with an unacceptable argument raises a validation
\* error before any persistence call: no document is written, no user record
\* changes, and no write is left pending.
C16_InvalidInputPersistsNothing ==
    [][(ev'.op = "addIssueClient" /\ Unacceptable(ev'.input)) =>
          /\ ev'.error # ""
          /\ ev'.writes = 0
          /\ docs' = docs
          /\ users' = users
          /\ adds' = adds]_vars

C16_Witness ==
    /\ ev.op = "addIssueClient"
    /\ ev.input.title = Blank
    /\ ev.input.has = {"title", "description", "address"}
    /\ ev.error = "Título obrigatório"
    /\ Len(docs) = 1
    /\ \E u \in Users : users[u].issuesReported = 1

\* C17: an issue created by addIssueClient from an acceptable argument is in
\* the notification its creation causes, with status 'Recebido', no upvotes,
\* no comments and the placeholder image made from its title.
C17_NewIssueAsReported ==
    [][(ev'.op = "callback" /\ ev'.issue # NoIssue) =>
          \E k \in 1..Len(issues') :
              /\ issues'[k].id = ev'.issue
              /\ issues'[k].status = "Recebido"
              /\ issues'[k].upvotes = 0
              /\ issues'[k].comments = <<>>
              /\ Len(issues'[k].imageUrl) > 1
              /\ issues'[k].imageUrl[1] = "https://placehold.co/600x400.png?text="
              /\ \A j \in 1..Len(issues') : j # k => issues'[j].id # ev'.issue]_vars

C17_Witness ==
    /\ ev.op = "callback"
    /\ ev.issue = "i2"
    /\ Len(issues) = 2
    /\ issues[1].id = "i2"
    /\ issues[1].imageUrl = <<"https://placehold.co/600x400.png?text=", "%20", "a", "%20">>

\* C18: the role stored in a comment is the role of the AppUser that
\* addCommentToIssue was given, and stays so whatever happens later: role
\* changes, other comments added or removed, and normalization.
C18_CommentRoleAsCreated ==
    \A d \in Range(docs) :
        /\ \A k \in 1..Len(d.comments) : d.comments[k].authorRole = roleAt[d.comments[k].id]
        /\ \A c \in Range(FromFirestore(d).comments) : c.authorRole = roleAt[c.id]

C18_Witness ==
    /\ Len(docs) = 1
    /\ Len(docs[1].comments) = 2
    /\ \E c \in Range(FromFirestore(docs[1]).comments) :
           /\ c.authorRole = "admin"
           /\ users[c.authorId].role = "user"
    /\ roleAt["c3"] # "none"

\* The comments stored in issue id.
StoredComments(ds, id) == IF id \in DocIds(ds) THEN DocOf(ds, id).comments ELSE <<>>

C20_SignInKeepsExistingRecord ==
    [][ev'.proc = "handler" =>
          /\ \A u \in Users : users[u].present => users'[u] = users[u]
          /\ \A u \in Users :
                 (~users[u].present /\ users'[u].present) =>
                     users'[u].role = "user" /\ users'[u].issuesReported = 0
          /\ (ev'.done /\ ev'.user # NoUser) => users'[ev'.user].present]_vars

\* C24: rolling back a failed upvote of an issue removes only that issue from
\* the in-memory upvoted set: every other issue that was in the set just
\* before the failure resolved is still in it afterwards.
C24_RollbackRemovesOnlyFailed ==
    [][(ev'.op = "resolveFail" /\ ev'.live) =>
          (upvotedIssues \ {ev'.issue}) \subseteq upvotedIssues']_vars

\* C27: addIssueClient is all-or-nothing on the store: once no call is in
\* flight, every issue document that was added has its increment of the
\* reporter's issuesReported (all reports here are by the one user), so a
\* call that rejected added no document.
C27_AddIssueAllOrNothing ==
    adds = <<>> => \A u \in Users : users[u].issuesReported = Len(docs)

\* C25: whenever the provider holds no identity and no auth-state handler is
\* suspended, the context publishes authUser = null, appUser = null and
\* isAdmin = false, also when the sign-out was handled while an earlier
\* sign-in handler was waiting for its profile read.
C25_SignedOutContextIsEmpty ==
    (idp.current = NoUser /\ ~HandlerPending) =>
        (session.authUser = NoUser /\ appUser = NoUser /\ ~session.isAdmin)

\* C26: once register(email, pass, name) has returned and no auth-state
\* handler for that user is still running, the stored user record carries the
\* name that was passed to register.
C26_RegisteredNameStored ==
    \A k \in 1..Len(procs) :
        (/\ procs[k].kind = "register"
         /\ procs[k].pc = "done"
         /\ ~\E h \in 1..Len(procs) : procs[h].kind = "handler" /\ procs[h].uid = procs[k].uid)
        => (users[procs[k].uid].present /\ users[procs[k].uid].name = procs[k].name)

\* C29: after an auth-state notification whose handler awaits the profile read
\* or the profile creation, isLoading eventually becomes false, also when that
\* read or write fails.
C29_LoadingEventuallyEnds == HandlerPending ~> ~session.isLoading

\* C30: when a record of a snapshot has no location, or has a comment without
\* a creation timestamp, the subscription handler raises on that notification:
\* the consumer callback is not invoked and the list published before stays.
Malformed(d) ==
    \/ "location" \notin d.has
    \/ "comments" \in d.has /\ \E k \in 1..Len(d.comments) : d.comments[k].createdAt = NoTimestamp

C30_MalformedSnapshotNotPublished ==
    [][(/\ ev'.op \in {"callback", "callbackRaised"}
        /\ \E k \in 1..Len(Head(feed.inbox).docs) : Malformed(Head(feed.inbox).docs[k]))
       => (ev'.op = "callbackRaised" /\ issues' = issues /\ filteredIssues' = filteredIssues)]_vars

\* A snapshot holding a located record whose comment has no creation time was
\* handled while a list was published.
C30_Witness ==
    /\ ev.op = "callbackRaised"
    /\ issues # <<>>
    /\ \E d \in Range(docs) : "location" \in d.has /\ Malformed(d)
    /\ \A d \in Range(docs) : "location" \in d.has

\* C21: when the reverse-geocode call of a map click fails (no response, or a
\* response that yields no place name), the click still ends with a proposed
\* location at the clicked coordinate whose address is the coordinate literal
\* '<lat>, <lng>'.
C21_FailedGeocodeFallsBackToLiteral ==
    [][(ev'.op = "geocode" /\ ev'.error # "place") =>
          mapState'.newIssueLocation =
              [set |-> TRUE, lat |-> Head(mapState.lookups).lat,
               lng |-> Head(mapState.lookups).lng,
               address |-> CoordinateLiteral(Head(mapState.lookups).lat,
                                             Head(mapState.lookups).lng)]]_vars

\* C23: a click on an issue marker shows that issue in the info popup, drops a
\* pending new-issue location, and moves the view to the marker with zoom
\* max(current zoom, 15), which is never below the current zoom.
C23_MarkerClickOpensPopup ==
    [][ev'.op = "markerClick" =>
          /\ mapState'.popupInfo = ev'.issue
          /\ ~mapState'.newIssueLocation.set
          /\ mapState'.view.lat = Degrees(IssueOf(ev'.issue).location.lat)
          /\ mapState'.view.lng = Degrees(IssueOf(ev'.issue).location.lng)
          /\ mapState'.view.zoom = Max(mapState.view.zoom, MarkerZoom)
          /\ mapState'.view.zoom >= mapState.view.zoom]_vars

\* A marker was clicked while a location was pending and the map was zoomed in
\* beyond 15.
C23_Witness ==
    /\ ev.op = "markerClick"
    /\ ev.hadLocation
    /\ mapState.view.zoom > MarkerZoom

\* C28: the issue popup and the confirm-location popup are never both set.
C28_PopupsExclusive ==
    ~(mapState.popupInfo # NoIssue /\ mapState.newIssueLocation.set)

====
